---------------------------- MODULE Spec2Model ----------------------------
(***************************************************************************)
(* A model of the two command-line tools of the repository:                *)
(*   round1a/extract_outline.py       PDFOutlineExtractor                  *)
(*   round1b/document_intelligence.py DocumentIntelligence                 *)
(* Text is a sequence of one-character strings, so that the regular        *)
(* expressions, split(), strip(), lower() and replace() of the source are  *)
(* computed character by character.  Font sizes are integers in tenths of  *)
(* a point (the source rounds every span size to one decimal).             *)
(***************************************************************************)
EXTENDS Integers, Sequences, FiniteSets, TLC

VARIABLES
    pc,             \* position of the running tool
    block,          \* is_likely_heading: the block argument
    font_stats,     \* calculate_font_statistics' result / is_likely_heading's argument
    result,         \* the value returned by the running function
    doc,            \* process_pdf: the file behind pdf_path
    page_num,       \* process_pdf: pages extracted so far
    all_blocks,     \* process_pdf: all_blocks
    title,          \* process_pdf: title
    headings,       \* process_pdf: headings
    seen_headings,  \* process_pdf: seen_headings
    block_idx,      \* process_pdf: blocks of all_blocks classified so far
    listing,        \* process_directory: os.listdir(input_dir), with each file's content
    file_idx,       \* process_directory: entries of the listing handled so far
    output_dir,     \* process_directory: the files of output_dir, name -> content
    sentences,      \* extract_subsections: sent_tokenize(content)
    sent_idx,       \* extract_subsections: sentences consumed so far
    current_para,   \* extract_subsections: current_para
    subsections,    \* extract_subsections: subsections
    documents,      \* process_documents: config["documents"]
    doc_idx,        \* process_documents: documents handled so far
    all_sections,   \* process_documents: all_sections
    all_subsections, \* process_documents: all_subsections
    sections,       \* extract_document_structure: sections
    current_section, \* extract_document_structure: current_section
    seg_idx         \* extract_document_structure: blocks of the current page handled so far

clsVars == <<block>>
pdfVars == <<doc, page_num, all_blocks, title, headings, seen_headings, block_idx>>
dirVars == <<listing, file_idx, output_dir>>
subVars == <<sentences, sent_idx, current_para, subsections>>
relVars == <<documents, doc_idx, all_sections, all_subsections>>
segVars == <<sections, current_section, seg_idx>>
vars == <<pc, font_stats, result, clsVars, pdfVars, dirVars, subVars, relVars, segVars>>

(***************************************************************************)
(* Characters and the string methods the source uses.                      *)
(***************************************************************************)
Digits == {"0", "1", "2", "3", "4", "5", "6", "7", "8", "9"}

UpperLetters == <<"A", "B", "C", "D", "E", "F", "G", "H", "I", "J", "K", "L", "M", "N", "O", "P", "Q", "R", "S", "T", "U", "V", "W", "X", "Y", "Z">>

LowerLetters == <<"a", "b", "c", "d", "e", "f", "g", "h", "i", "j", "k", "l", "m", "n", "o", "p", "q", "r", "s", "t", "u", "v", "w", "x", "y", "z">>

Whitespace == {" ", "\t", "\n", "\r", "\f"}

IsUpperChar(c) == \E i \in 1..26 : UpperLetters[i] = c

IsLowerChar(c) == \E i \in 1..26 : LowerLetters[i] = c

ToLowerChar(c) ==
    IF IsUpperChar(c)
    THEN LowerLetters[CHOOSE i \in 1..26 : UpperLetters[i] = c]
    ELSE c

\* str.lower()
Lower(t) == [i \in 1..Len(t) |-> ToLowerChar(t[i])]

\* str.isupper(): some cased character, and no lower-case one
IsUpperStr(t) ==
    /\ \E i \in 1..Len(t) : IsUpperChar(t[i])
    /\ \A i \in 1..Len(t) : ~IsLowerChar(t[i])

\* len(str.split()): the number of maximal runs of non-whitespace
WordCount(t) ==
    Cardinality({i \in 1..Len(t) :
        /\ t[i] \notin Whitespace
        /\ (i = 1 \/ t[i - 1] \in Whitespace)})

\* str.strip()
Strip(t) ==
    LET keep == {i \in 1..Len(t) : t[i] \notin Whitespace}
    IN  IF keep = {} THEN <<>>
        ELSE SubSeq(t, CHOOSE i \in keep : \A j \in keep : i <= j,
                       CHOOSE i \in keep : \A j \in keep : i >= j)

\* sub in str
Contains(t, sub) ==
    \E i \in 1..(Len(t) - Len(sub) + 1) : SubSeq(t, i, i + Len(sub) - 1) = sub

\* str.endswith(suffix)
EndsWith(t, suffix) ==
    /\ Len(t) >= Len(suffix)
    /\ SubSeq(t, Len(t) - Len(suffix) + 1, Len(t)) = suffix

RECURSIVE Concat(_)
\* "".join(seq)
Concat(ss) == IF ss = <<>> THEN <<>> ELSE Head(ss) \o Concat(Tail(ss))

(***************************************************************************)
(* Regular expressions.  A pattern is a sequence of elements               *)
(*   [op |-> "star" | "plus" | "opt" | "lit" | "end", cls |-> class]       *)
(* and matching keeps the set of positions the match can have reached,     *)
(* which is what a backtracking matcher explores.                          *)
(***************************************************************************)
\* the characters the source's cleaning expression lists after \d: . - a-circumflex euro cent *
CleanChars == Digits \cup {".", "-", "*", "â", "€", "¢"}

ClassHas(cls, c) ==
    CASE cls = "s"     -> c \in Whitespace
      [] cls = "d"     -> c \in Digits
      [] cls = "A-Z"   -> IsUpperChar(c)
      [] cls = "IVX"   -> c \in {"I", "V", "X"}
      [] cls = "any"   -> c # "\n"
      [] cls = "clean" -> c \in CleanChars
      [] cls = "word"  -> IsUpperChar(c) \/ IsLowerChar(c) \/ c \in Digits \/ c = "_"
      [] OTHER         -> c = cls

RECURSIVE RunEnd(_, _, _)
\* the position after the longest run of cls characters starting at i
RunEnd(t, i, cls) ==
    IF i <= Len(t) /\ ClassHas(cls, t[i]) THEN RunEnd(t, i + 1, cls) ELSE i

ReStep(t, S, e) ==
    CASE e.op = "star" -> UNION {i..RunEnd(t, i, e.cls) : i \in S}
      [] e.op = "plus" -> UNION {(i + 1)..RunEnd(t, i, e.cls) : i \in S}
      [] e.op = "lit"  -> {i + 1 : i \in {j \in S : j <= Len(t) /\ ClassHas(e.cls, t[j])}}
      [] e.op = "opt"  -> S \cup {i + 1 : i \in {j \in S : j <= Len(t) /\ ClassHas(e.cls, t[j])}}
      [] e.op = "end"  -> {i \in S : i = Len(t) + 1 \/ (i = Len(t) /\ t[i] = "\n")}

RECURSIVE ReEnds(_, _, _, _)
\* the positions at which pattern elements k.. can end, having started in S
ReEnds(t, pat, k, S) ==
    IF k > Len(pat) THEN S ELSE ReEnds(t, pat, k + 1, ReStep(t, S, pat[k]))

\* re.match(pattern, text)
ReMatch(pat, t) == ReEnds(t, pat, 1, {1}) # {}

E(op, cls) == [op |-> op, cls |-> cls]

\* self.heading_patterns['numbered']
NumberedPatterns == <<
    \* ^\s*(\d+\.?)\s+(.+)$
    <<E("star", "s"), E("plus", "d"), E("opt", "."),
      E("plus", "s"), E("plus", "any"), E("end", "")>>,
    \* ^\s*(\d+\.\d+\.?)\s+(.+)$
    <<E("star", "s"), E("plus", "d"), E("lit", "."), E("plus", "d"), E("opt", "."),
      E("plus", "s"), E("plus", "any"), E("end", "")>>,
    \* ^\s*(\d+\.\d+\.\d+\.?)\s+(.+)$
    <<E("star", "s"), E("plus", "d"), E("lit", "."), E("plus", "d"), E("lit", "."),
      E("plus", "d"), E("opt", "."),
      E("plus", "s"), E("plus", "any"), E("end", "")>>,
    \* ^\s*([A-Z]\.?)\s+(.+)$
    <<E("star", "s"), E("lit", "A-Z"), E("opt", "."),
      E("plus", "s"), E("plus", "any"), E("end", "")>>,
    \* ^\s*([IVX]+\.?)\s+(.+)$
    <<E("star", "s"), E("plus", "IVX"), E("opt", "."),
      E("plus", "s"), E("plus", "any"), E("end", "")>> >>

\* self.heading_patterns['keywords']
Keywords == {
      <<"i", "n", "t", "r", "o", "d", "u", "c", "t", "i", "o", "n">>,
      <<"c", "o", "n", "c", "l", "u", "s", "i", "o", "n">>,
      <<"a", "b", "s", "t", "r", "a", "c", "t">>,
      <<"s", "u", "m", "m", "a", "r", "y">>,
      <<"c", "h", "a", "p", "t", "e", "r">>,
      <<"s", "e", "c", "t", "i", "o", "n">>,
      <<"o", "v", "e", "r", "v", "i", "e", "w">>,
      <<"b", "a", "c", "k", "g", "r", "o", "u", "n", "d">>,
      <<"m", "e", "t", "h", "o", "d", "o", "l", "o", "g", "y">>,
      <<"r", "e", "s", "u", "l", "t", "s">>,
      <<"d", "i", "s", "c", "u", "s", "s", "i", "o", "n">>,
      <<"r", "e", "f", "e", "r", "e", "n", "c", "e", "s">> }

\* pattern.count('\.'): the escaped dots of the pattern
CountEscapedDots(pat) == Cardinality({k \in 1..Len(pat) : pat[k].cls = "."})

\* '.' not in pattern: the pattern holds no dot at all (escaped, or the any-character dot)
HasNoDot(pat) == \A k \in 1..Len(pat) : pat[k].cls \notin {".", "any"}

(***************************************************************************)
(* PDFOutlineExtractor.is_likely_heading                                   *)
(* A block is [text, spans, page]; a span is [text, size, flags], its size *)
(* in tenths of a point.  font_stats is [is_none |-> TRUE] for None.       *)
(***************************************************************************)
MaxHeadingLen == 200

MaxHeadingWords == 10

BoldBit == 16

NoStats == [is_none |-> TRUE]

NotHeading == [heading |-> FALSE, level |-> 0]

TooLongOffByOne(text) == Len(text) >= MaxHeadingLen

\* len(text) > 200
TooLong(text) == Len(text) > MaxHeadingLen

PatternLevelCountingEveryDot(k) ==
    LET pattern == NumberedPatterns[k]
        dots == Cardinality({j \in 1..Len(pattern) : pattern[j].cls \in {".", "any"}})
    IN  IF dots = 1 THEN 1 ELSE IF dots = 2 THEN 2 ELSE 3

\* the level of heading_patterns['numbered'][k], from the dots of the pattern
PatternLevel(k) ==
    LET pattern == NumberedPatterns[k]
    IN  IF HasNoDot(pattern) \/ CountEscapedDots(pattern) = 1 THEN 1
        ELSE IF CountEscapedDots(pattern) = 2 THEN 2
        ELSE 3

\* the first pattern of heading_patterns['numbered'] that matches, 0 when none does
FirstMatch(text) ==
    LET m == {k \in 1..Len(NumberedPatterns) : ReMatch(NumberedPatterns[k], text)}
    IN  IF m = {} THEN 0 ELSE CHOOSE k \in m : \A j \in m : k <= j

\* max(spans, key=lambda x: len(x["text"])): the first span of the greatest length
MainSpan(spans) ==
    spans[CHOOSE i \in 1..Len(spans) :
            \A j \in 1..Len(spans) :
                /\ Len(spans[i].text) >= Len(spans[j].text)
                /\ (j < i => Len(spans[i].text) > Len(spans[j].text))]

\* flags & 2**4
IsBold(flags) == (flags \div BoldBit) % 2 = 1

\* font_size > body_size * (tenths / 10)
Exceeds(font_size, body_size, tenths) == 10 * font_size > tenths * body_size

\* any(kw in text_lower for kw in keywords)
HasKeyword(text) == \E kw \in Keywords : Contains(Lower(text), kw)

FontRuleWordsBelowTen(b, stats) ==
    IF ~stats.is_none /\ b.spans # <<>>
    THEN LET main_span == MainSpan(b.spans)
             font_size == main_span.size
             is_bold   == IsBold(main_span.flags)
             level     == IF Exceeds(font_size, stats.body_size, 15) THEN 1
                          ELSE IF Exceeds(font_size, stats.body_size, 13) THEN 2
                          ELSE 3
         IN  IF (Exceeds(font_size, stats.body_size, 12) \/ is_bold)
                /\ WordCount(b.text) < MaxHeadingWords
                /\ (\/ HasKeyword(b.text) \/ is_bold \/ IsUpperStr(b.text)
                    \/ (IsUpperChar(b.text[1]) /\ ~EndsWith(b.text, <<".">>)))
             THEN [heading |-> TRUE, level |-> level]
             ELSE NotHeading
    ELSE NotHeading

\* lines 107-135: the font-based rule, for a text no pattern matched
FontRule(b, stats) ==
    IF ~stats.is_none /\ b.spans # <<>>
    THEN LET main_span == MainSpan(b.spans)
             font_size == main_span.size
             is_bold   == IsBold(main_span.flags)
             level     == IF Exceeds(font_size, stats.body_size, 15) THEN 1
                          ELSE IF Exceeds(font_size, stats.body_size, 13) THEN 2
                          ELSE 3
         IN  IF Exceeds(font_size, stats.body_size, 12) \/ is_bold
             THEN IF WordCount(b.text) <= MaxHeadingWords
                  THEN IF HasKeyword(b.text) \/ is_bold \/ IsUpperStr(b.text)
                       THEN [heading |-> TRUE, level |-> level]
                       ELSE IF IsUpperChar(b.text[1]) /\ ~EndsWith(b.text, <<".">>)
                            THEN [heading |-> TRUE, level |-> level]
                            ELSE NotHeading
                  ELSE NotHeading
             ELSE NotHeading
    ELSE NotHeading

\* is_likely_heading(block, font_stats): (is_heading, level)
IsLikelyHeading(b, stats) ==
    IF TooLong(b.text) THEN NotHeading
    ELSE IF FirstMatch(b.text) # 0
         THEN [heading |-> TRUE, level |-> PatternLevel(FirstMatch(b.text))]
         ELSE FontRule(b, stats)

(***************************************************************************)
(* The inputs of the classifier's specification.  A numbered text is built *)
(* from its parts: a numbering token, a gap of whitespace and a body.      *)
(***************************************************************************)
NumberingTokens ==
    {[token |-> <<"1">>, kind |-> "numeric", groups |-> 1],
     [token |-> <<"1", "2", ".">>, kind |-> "numeric", groups |-> 1],
     [token |-> <<"2", ".", "3">>, kind |-> "numeric", groups |-> 2],
     [token |-> <<"1", ".", "1", ".">>, kind |-> "numeric", groups |-> 2],
     [token |-> <<"1", ".", "1", ".", "1">>, kind |-> "numeric", groups |-> 3],
     [token |-> <<"1", ".", "2", ".", "3", ".">>, kind |-> "numeric", groups |-> 3],
     [token |-> <<"A">>, kind |-> "letter", groups |-> 1],
     [token |-> <<"B", ".">>, kind |-> "letter", groups |-> 1],
     [token |-> <<"I", "V">>, kind |-> "roman", groups |-> 1],
     [token |-> <<"X", ".">>, kind |-> "roman", groups |-> 1]}

Gaps == {<<" ">>,
        <<" ", "\t">>}

Bodies == {<<"I", "n", "t", "r", "o", "d", "u", "c", "t", "i", "o", "n">>,
          <<"B", "a", "c", "k", "g", "r", "o", "u", "n", "d">>,
          <<"-", "2", " ", "i", "t", "e", "m", "s", ".">>}

NumberedCases ==
    {[token |-> n.token, kind |-> n.kind, groups |-> n.groups, gap |-> g, body |-> b] :
        n \in NumberingTokens, g \in Gaps, b \in Bodies}

CaseText(c) == c.token \o c.gap \o c.body

PlainTexts ==
    {<<"M", "e", "t", "h", "o", "d", "o", "l", "o", "g", "y">>,
     <<"M", "E", "T", "H", "O", "D", "S">>,
     <<"D", "o", "c", " ", "T", "i", "t", "l", "e">>,
     <<"S", "o", "m", "e", " ", "b", "o", "d", "y", " ", "t", "e", "x", "t", ".">>,
     <<"s", "o", "m", "e", " ", "n", "o", "t", "e", "s">>,
     <<"l", "o", "w", "e", "r", " ", "c", "a", "s", "e", " ", "w", "o", "r", "d", "s", ".">>,
     <<"R", "e", "s", "u", "l", "t", "s", " ", "a", "r", "e", " ", "i", "n", ".">>,
     <<"O", "n", "e", " ", "t", "w", "o", " ", "t", "h", "r", "e", "e", " ", "f", "o", "u", "r", " ", "f", "i", "v", "e", " ", "s", "i", "x", " ", "s", "e", "v", "e", "n", " ", "e", "i", "g", "h", "t", " ", "n", "i", "n", "e", " ", "t", "e", "n">>,
     <<"O", "n", "e", " ", "t", "w", "o", " ", "t", "h", "r", "e", "e", " ", "f", "o", "u", "r", " ", "f", "i", "v", "e", " ", "s", "i", "x", " ", "s", "e", "v", "e", "n", " ", "e", "i", "g", "h", "t", " ", "n", "i", "n", "e", " ", "t", "e", "n", " ", "e", "l", "e", "v", "e", "n">>,
     <<"a", ".", " ", "l", "o", "w", "e", "r">>,
     <<"1", ".", "2", ".", "3", ".", "4", " ", "D", "e", "e", "p">>,
     <<"A", "B", ".", " ", "T", "w", "o", " ", "l", "e", "t", "t", "e", "r", "s">>,
     <<"*", "*">>,
     <<"3">>,
     <<"1", ".", "I", "n", "t", "r", "o", "d", "u", "c", "t", "i", "o", "n">>,
     <<"T", "i", "t", "l", "e", " ", "C", "a", "s", "e", " ", "E", "n", "d", "s", ".">>}

Pad(c, n) == [i \in 1..n |-> c]

LongHeads == {<<"1", ".", " ">>,
              <<"M", "E", "T", "H", "O", "D", "S", " ">>,
              <<"A">>}

LongLens == {199, 200, 201, 250}

LongTexts == {h \o Pad("x", n - Len(h)) : h \in LongHeads, n \in LongLens}

ClsTexts == {CaseText(c) : c \in NumberedCases} \cup PlainTexts \cup LongTexts

\* span sizes, in tenths of a point
ClsSizes == {100, 110, 120, 121, 130, 131, 150, 151}

ClsFlags == {0, 4, 16}

ClsSecondStyles == {[size |-> 300, flags |-> 16], [size |-> 100, flags |-> 4]}

ClsBodySizes == {100, 140}

\* the spans of a line: the text in one span, or cut in two spans of different styles
SpansOf(text, size, flags) ==
    {<<[text |-> text, size |-> size, flags |-> flags]>>}
    \cup {<<[text |-> SubSeq(text, 1, k), size |-> size, flags |-> flags],
            [text |-> SubSeq(text, k + 1, Len(text)), size |-> s2.size, flags |-> s2.flags]>> :
            k \in {1, Len(text) \div 2} \cap 1..(Len(text) - 1), s2 \in ClsSecondStyles}

ClsBlocks ==
    UNION {{[text |-> Strip(Concat([i \in 1..Len(sp) |-> sp[i].text])), spans |-> sp, page |-> 1] :
                sp \in SpansOf(t, s, f)} : t \in ClsTexts, s \in ClsSizes, f \in ClsFlags}

ClsStats == {NoStats} \cup {[is_none |-> FALSE, body_size |-> b] : b \in ClsBodySizes}

(***************************************************************************)
(* The specification of is_likely_heading: one call on any block and any   *)
(* font statistics, one action per return statement.                       *)
(***************************************************************************)
IdlePdf ==
    /\ doc = <<>> /\ page_num = 0 /\ all_blocks = <<>> /\ title = <<>>
    /\ headings = <<>> /\ seen_headings = {} /\ block_idx = 0

IdleDir == listing = <<>> /\ file_idx = 0 /\ output_dir = {}

IdleSub == sentences = <<>> /\ sent_idx = 0 /\ current_para = <<>> /\ subsections = <<>>

IdleRel == documents = <<>> /\ doc_idx = 0 /\ all_sections = <<>> /\ all_subsections = <<>>

\* line 38: current_section = None
NoSection == [is_none |-> TRUE]

IdleSeg == sections = <<>> /\ current_section = NoSection /\ seg_idx = 0

InitClassify ==
    /\ pc = "cls_call"
    /\ block \in ClsBlocks
    /\ font_stats \in ClsStats
    /\ result = NotHeading
    /\ IdlePdf /\ IdleDir /\ IdleSub /\ IdleRel /\ IdleSeg

ClsReturn ==
    /\ pc = "cls_call"
    /\ pc' = "cls_return"
    /\ result' = IsLikelyHeading(block, font_stats)
    /\ UNCHANGED <<font_stats, clsVars, pdfVars, dirVars, subVars, relVars, segVars>>

\* line 93: return False, 0
ReturnTooLong == TooLong(block.text) /\ ClsReturn

\* line 105: return True, level
ReturnNumbered == ~TooLong(block.text) /\ FirstMatch(block.text) # 0 /\ ClsReturn

\* lines 130 and 133: return True, level
ReturnFontHeading ==
    /\ ~TooLong(block.text) /\ FirstMatch(block.text) = 0
    /\ FontRule(block, font_stats).heading
    /\ ClsReturn

\* line 135: return False, 0
ReturnNotHeading ==
    /\ ~TooLong(block.text) /\ FirstMatch(block.text) = 0
    /\ ~FontRule(block, font_stats).heading
    /\ ClsReturn

NextClassify == ReturnTooLong \/ ReturnNumbered \/ ReturnFontHeading \/ ReturnNotHeading

SpecClassify == InitClassify /\ [][NextClassify]_vars

(***************************************************************************)
(* Claims about is_likely_heading, checked under SpecClassify.             *)
(***************************************************************************)
Returned == pc = "cls_return"

DominantSpan == MainSpan(block.spans)

\* C6: a fragment of more than 200 characters is never classified as a heading,
\* whatever its font size, boldness, keywords or numbering prefix; a fragment of
\* exactly 200 characters is not rejected by the length rule: its result is the
\* one the numbering patterns and the font rule give.
C6_LongTextNeverHeading ==
    Returned =>
        /\ (Len(block.text) > 200 => result = NotHeading)
        /\ (Len(block.text) = 200 =>
                result = IF FirstMatch(block.text) # 0
                         THEN [heading |-> TRUE, level |-> PatternLevel(FirstMatch(block.text))]
                         ELSE FontRule(block, font_stats))

\* C6 witness: a bold, large, numbered 250-character fragment was rejected
C6_Witness ==
    /\ Returned
    /\ block.text = <<"1", ".", " ">> \o Pad("x", 247)
    /\ IsBold(DominantSpan.flags) /\ DominantSpan.size = 151
    /\ ~font_stats.is_none /\ font_stats.body_size = 100
    /\ result = NotHeading

\* the level the claim gives a numbered case: the number of numeric groups, or 1
\* for a letter or a Roman numeral
ClaimedLevel(c) == IF c.kind = "numeric" THEN c.groups ELSE 1

\* C7: a fragment of at most 200 characters made of a numbering token, whitespace
\* and a body is a heading of level 1 for one numeric, letter or Roman group, of
\* level 2 for two numeric groups and of level 3 for three, whatever its font
\* size and boldness and whether or not font statistics exist.
C7_NumberedLevels ==
    Returned =>
        /\ \A c \in NumberedCases :
              (block.text = CaseText(c) /\ Len(block.text) <= 200) =>
                  result = [heading |-> TRUE, level |-> ClaimedLevel(c)]
        /\ \A n \in {199, 200} :
              block.text = <<"1", ".", " ">> \o Pad("x", n - 3) =>
                  result = [heading |-> TRUE, level |-> 1]

\* C7 witness: "2.3 Background", not bold, at body size, came out as level 2
C7_Witness ==
    /\ Returned
    /\ block.text = <<"2", ".", "3", " ", "B", "a", "c", "k", "g", "r", "o", "u", "n", "d">>
    /\ Len(block.spans) = 1
    /\ ~IsBold(DominantSpan.flags) /\ DominantSpan.size = 100
    /\ ~font_stats.is_none /\ font_stats.body_size = 100
    /\ result = [heading |-> TRUE, level |-> 2]

\* C10: for a fragment of at most 200 characters that no numbering pattern matches,
\* with font statistics, the result is a heading exactly when (dominant span size >
\* 1.2 x body size or dominant span bold) and at most 10 words and (keyword or bold
\* or fully upper-case or (starts upper-case and does not end with a period)); its
\* level is 1 above 1.5 x body size, 2 above 1.3 x, else 3; and a non-bold
\* fragment at body size is never a heading.
C10_FontRule ==
    (Returned /\ Len(block.text) <= 200 /\ FirstMatch(block.text) = 0 /\ ~font_stats.is_none) =>
        LET size == DominantSpan.size
            bold == IsBold(DominantSpan.flags)
            body == font_stats.body_size
            text == block.text
            isHeading ==
                /\ (10 * size > 12 * body \/ bold)
                /\ WordCount(text) <= 10
                /\ \/ \E kw \in Keywords : Contains(Lower(text), kw)
                   \/ bold
                   \/ IsUpperStr(text)
                   \/ (IsUpperChar(text[1]) /\ text[Len(text)] # ".")
            level == IF 10 * size > 15 * body THEN 1
                     ELSE IF 10 * size > 13 * body THEN 2 ELSE 3
        IN  /\ result.heading = isHeading
            /\ (isHeading => result.level = level)
            /\ ((~bold /\ size = body) => ~result.heading)

\* C10 witness: bold 11pt "Methodology" with a body size of 10pt is a level-3 heading
C10_Witness ==
    /\ Returned
    /\ block.text = <<"M", "e", "t", "h", "o", "d", "o", "l", "o", "g", "y">>
    /\ IsBold(DominantSpan.flags) /\ DominantSpan.size = 110
    /\ ~font_stats.is_none /\ font_stats.body_size = 100
    /\ result = [heading |-> TRUE, level |-> 3]

(***************************************************************************)
(* PDFOutlineExtractor: extraction, font statistics, title and headings.   *)
(* A document is [opens, pages, bad_page]: fitz.open succeeds or raises,   *)
(* pages is the sequence of pages, each a sequence of lines, each a        *)
(* sequence of spans, and get_text raises on page bad_page (0: on none).   *)
(***************************************************************************)
RECURSIVE SumLens(_)
SumLens(spans) == IF spans = <<>> THEN 0 ELSE Len(Head(spans).text) + SumLens(Tail(spans))

RECURSIVE FlattenSeq(_)
\* the concatenation of a sequence of sequences
FlattenSeq(ss) == IF ss = <<>> THEN <<>> ELSE Head(ss) \o FlattenSeq(Tail(ss))

\* extract_text_with_formatting(page): a block per line whose stripped text is not empty
ExtractTextWithFormatting(page, number) ==
    LET LineText(line) == Concat([i \in 1..Len(line) |-> line[i].text])
        BlockOf(line) == [text |-> Strip(LineText(line)), spans |-> line, page |-> number]
    IN  FlattenSeq([i \in 1..Len(page) |->
            IF Strip(LineText(page[i])) # <<>> THEN <<BlockOf(page[i])>> ELSE <<>>])

\* calculate_font_statistics(blocks); the dict keeps its keys in insertion order and
\* max() returns the first of the greatest
CalculateFontStatistics(blocks) ==
    LET spans == FlattenSeq([i \in 1..Len(blocks) |-> blocks[i].spans])
        keys  == {spans[i].size : i \in 1..Len(spans)}
        first(size) == CHOOSE i \in 1..Len(spans) :
                          /\ spans[i].size = size
                          /\ \A j \in 1..(i - 1) : spans[j].size # size
        count(size) == SumLens(SelectSeq(spans, LAMBDA sp : sp.size = size))
        body == CHOOSE s \in keys : \A o \in keys :
                    \/ count(s) > count(o)
                    \/ (count(s) = count(o) /\ first(s) <= first(o))
        RECURSIVE Descending(_)
        Descending(K) == IF K = {} THEN <<>>
                         ELSE LET m == CHOOSE x \in K : \A y \in K : x >= y
                              IN  <<m>> \o Descending(K \ {m})
    IN  IF keys # {}
        THEN [is_none |-> FALSE, body_size |-> body, sizes |-> Descending(keys),
              size_distribution |-> [s \in keys |-> count(s)]]
        ELSE NoStats

UntitledDocument == <<"U", "n", "t", "i", "t", "l", "e", "d", " ", "D", "o", "c", "u", "m", "e", "n", "t">>

ErrorTitle == <<"E", "r", "r", "o", "r", " ", "P", "r", "o", "c", "e", "s", "s", "i", "n", "g", " ", "D", "o", "c", "u", "m", "e", "n", "t">>

TitleMaxLen == 150

TitleBlocks == 10

RECURSIVE TitleScan(_, _, _, _)
\* the loop of extract_title over first_page_blocks[:10]
TitleScan(blocks, i, max_size, candidate) ==
    IF i > Len(blocks) \/ i > TitleBlocks THEN candidate
    ELSE IF /\ blocks[i].spans # <<>>
            /\ MainSpan(blocks[i].spans).size > max_size
            /\ Len(blocks[i].text) < TitleMaxLen
         THEN TitleScan(blocks, i + 1, MainSpan(blocks[i].spans).size, blocks[i].text)
         ELSE TitleScan(blocks, i + 1, max_size, candidate)

\* extract_title(blocks, first_page_blocks)
ExtractTitle(blocks, first_page_blocks) ==
    IF first_page_blocks = <<>> THEN UntitledDocument
    ELSE LET t == TitleScan(first_page_blocks, 1, 0, <<>>)
         IN  IF t = <<>> THEN UntitledDocument ELSE t

\* ^\s*[\d\.\-...\*]+\s*
CleanPattern == <<E("star", "s"), E("plus", "clean"), E("star", "s")>>

\* re.sub(pattern, '', text) for a pattern anchored at the start of the text, whose
\* greedy match is its longest one: the match, if any, is cut off
ReSubStart(pat, t) ==
    LET S == ReEnds(t, pat, 1, {1})
    IN  IF S = {} THEN t
        ELSE SubSeq(t, CHOOSE i \in S : \A j \in S : i >= j, Len(t))

\* lines 183-184: the cleaned heading text
CleanHeading(text) == Strip(ReSubStart(CleanPattern, text))

LevelName(level) == <<"H1", "H2", "H3">>[level]

HeadingStepNoSeenCheck(acc, b, stats) ==
    LET r == IsLikelyHeading(b, stats)
        heading_text == CleanHeading(b.text)
    IN  IF r.heading /\ heading_text # <<>>
        THEN [headings |-> Append(acc.headings,
                  [level |-> LevelName(r.level), text |-> heading_text, page |-> b.page]),
              seen_headings |-> acc.seen_headings \cup {heading_text}]
        ELSE acc

\* lines 178-193: one iteration of the loop over all_blocks, on the pair
\* [headings, seen_headings]
HeadingStep(acc, b, stats) ==
    LET r == IsLikelyHeading(b, stats)
        heading_text == CleanHeading(b.text)
    IN  IF r.heading /\ heading_text # <<>> /\ heading_text \notin acc.seen_headings
        THEN [headings |-> Append(acc.headings,
                  [level |-> LevelName(r.level), text |-> heading_text, page |-> b.page]),
              seen_headings |-> acc.seen_headings \cup {heading_text}]
        ELSE acc

RECURSIVE InsertByPage(_, _)
\* x put behind every element whose page is not greater
InsertByPage(sorted, x) ==
    IF sorted = <<>> THEN <<x>>
    ELSE IF sorted[Len(sorted)].page <= x.page THEN Append(sorted, x)
         ELSE Append(InsertByPage(SubSeq(sorted, 1, Len(sorted) - 1), x), sorted[Len(sorted)])

RECURSIVE SortByPage(_)
\* headings.sort(key=lambda x: x["page"]): a stable sort
SortByPage(hs) ==
    IF hs = <<>> THEN <<>>
    ELSE InsertByPage(SortByPage(SubSeq(hs, 1, Len(hs) - 1)), hs[Len(hs)])

\* lines 205-210: the result of the except branch
ErrorResult == [title |-> ErrorTitle, outline |-> <<>>]

\* first_page_blocks = [b for b in all_blocks if b["page"] == 1]
FirstPageBlocks(blocks) == SelectSeq(blocks, LAMBDA b : b.page = 1)

RECURSIVE ExtractHeadings(_, _, _, _)
\* the loop of lines 177-193 from block i on
ExtractHeadings(blocks, i, acc, stats) ==
    IF i > Len(blocks) THEN acc
    ELSE ExtractHeadings(blocks, i + 1, HeadingStep(acc, blocks[i], stats), stats)

\* process_pdf(pdf_path) as a whole, for the batch of process_directory
ProcessPdf(d) ==
    IF ~d.opens \/ d.bad_page # 0 THEN ErrorResult
    ELSE LET blocks == FlattenSeq([p \in 1..Len(d.pages) |->
                           ExtractTextWithFormatting(d.pages[p], p)])
             stats  == CalculateFontStatistics(blocks)
             acc    == ExtractHeadings(blocks, 1,
                           [headings |-> <<>>, seen_headings |-> {}], stats)
         IN  [title |-> ExtractTitle(blocks, FirstPageBlocks(blocks)),
              outline |-> SortByPage(acc.headings)]

(***************************************************************************)
(* The documents of the specification of process_pdf.                      *)
(***************************************************************************)
LineIntroduction == <<[text |-> <<"1", ".", " ", "I", "n", "t", "r", "o", "d", "u", "c", "t", "i", "o", "n">>, size |-> 140, flags |-> 0]>>

LineBodyText == <<[text |-> <<"S", "o", "m", "e", " ", "b", "o", "d", "y", " ", "t", "e", "x", "t", ".">>, size |-> 100, flags |-> 0]>>

LineLetter == <<[text |-> <<"A", ".", " ", "S", "e", "c", "t", "i", "o", "n">>, size |-> 100, flags |-> 0]>>

LineBoldIntroduction == <<[text |-> <<"I", "n", "t", "r", "o">>, size |-> 100, flags |-> 16],
                          [text |-> <<"d", "u", "c", "t", "i", "o", "n">>, size |-> 100, flags |-> 16]>>

LineStars == <<[text |-> <<"*", "*">>, size |-> 100, flags |-> 16]>>

LineBlank == <<[text |-> <<" ">>, size |-> 100, flags |-> 0]>>

LineDocTitle == <<[text |-> <<"D", "o", "c", " ", "T", "i", "t", "l", "e">>, size |-> 240, flags |-> 0]>>

LineBackground == <<[text |-> <<"1", ".", "1", " ", "B", "a", "c", "k", "g", "r", "o", "u", "n", "d">>, size |-> 120, flags |-> 0]>>

Lines == {LineIntroduction, LineBodyText, LineLetter, LineBoldIntroduction,
          LineStars, LineBlank}

MaxLines == 3

LineSeqs(n) == UNION {[1..k -> Lines] : k \in 0..n}

\* one or two pages holding at most MaxLines lines together
BoundedPages ==
    {<<p>> : p \in LineSeqs(MaxLines)}
    \cup UNION {{<<p1, p2>> : p2 \in LineSeqs(MaxLines - Len(p1))} : p1 \in LineSeqs(MaxLines)}

\* a page with one numbered line, for every numbered case
NumberedPages == {<< <<  <<[text |-> CaseText(c), size |-> 100, flags |-> 0]>> >> >> :
                      c \in NumberedCases}

\* the single-page document of the end-to-end example
EndToEndPages == << <<LineDocTitle, LineIntroduction, LineBodyText, LineBackground>> >>

BrokenDoc == [opens |-> FALSE, pages |-> <<>>, bad_page |-> 0]

PdfDocs ==
    {BrokenDoc}
    \cup UNION {{[opens |-> TRUE, pages |-> pg, bad_page |-> b] : b \in 0..Len(pg)} :
                   pg \in BoundedPages \cup NumberedPages \cup {EndToEndPages}}

(***************************************************************************)
(* The specification of process_pdf: one call on any document.             *)
(***************************************************************************)
InitPdf ==
    /\ pc = "pdf_open"
    /\ doc \in PdfDocs
    /\ page_num = 0 /\ all_blocks = <<>> /\ title = <<>>
    /\ headings = <<>> /\ seen_headings = {} /\ block_idx = 0
    /\ font_stats = NoStats
    /\ result = <<>>
    /\ block = <<>>
    /\ IdleDir /\ IdleSub /\ IdleRel /\ IdleSeg

\* line 158: fitz.open(pdf_path) returns
OpenDocument ==
    /\ pc = "pdf_open" /\ doc.opens
    /\ pc' = "pdf_extract"
    /\ all_blocks' = <<>> /\ page_num' = 0
    /\ UNCHANGED <<font_stats, result, clsVars, doc, title, headings, seen_headings,
                   block_idx, dirVars, subVars, relVars, segVars>>

\* line 158 raises, lines 205-210 answer
OpenFails ==
    /\ pc = "pdf_open" /\ ~doc.opens
    /\ pc' = "pdf_done"
    /\ result' = ErrorResult
    /\ UNCHANGED <<font_stats, clsVars, pdfVars, dirVars, subVars, relVars, segVars>>

\* lines 162-164: one page extracted
ExtractPage ==
    /\ pc = "pdf_extract" /\ page_num < Len(doc.pages) /\ doc.bad_page # page_num + 1
    /\ all_blocks' = all_blocks \o ExtractTextWithFormatting(doc.pages[page_num + 1], page_num + 1)
    /\ page_num' = page_num + 1
    /\ UNCHANGED <<pc, font_stats, result, clsVars, doc, title, headings, seen_headings,
                   block_idx, dirVars, subVars, relVars, segVars>>

\* line 163 raises, lines 205-210 answer
ExtractFails ==
    /\ pc = "pdf_extract" /\ page_num < Len(doc.pages) /\ doc.bad_page = page_num + 1
    /\ pc' = "pdf_done"
    /\ result' = ErrorResult
    /\ UNCHANGED <<font_stats, clsVars, pdfVars, dirVars, subVars, relVars, segVars>>

\* lines 167-175: font statistics, title, empty headings
ComputeStatistics ==
    /\ pc = "pdf_extract" /\ page_num = Len(doc.pages)
    /\ pc' = "pdf_classify"
    /\ font_stats' = CalculateFontStatistics(all_blocks)
    /\ title' = ExtractTitle(all_blocks, FirstPageBlocks(all_blocks))
    /\ headings' = <<>> /\ seen_headings' = {} /\ block_idx' = 0
    /\ UNCHANGED <<result, clsVars, doc, page_num, all_blocks, dirVars, subVars, relVars, segVars>>

\* lines 177-193: one block of all_blocks
ClassifyBlock ==
    /\ pc = "pdf_classify" /\ block_idx < Len(all_blocks)
    /\ LET acc == HeadingStep([headings |-> headings, seen_headings |-> seen_headings],
                              all_blocks[block_idx + 1], font_stats)
       IN  /\ headings' = acc.headings
           /\ seen_headings' = acc.seen_headings
    /\ block_idx' = block_idx + 1
    /\ UNCHANGED <<pc, font_stats, result, clsVars, doc, page_num, all_blocks, title,
                   dirVars, subVars, relVars, segVars>>

\* lines 196-203: sort and return
SortAndReturn ==
    /\ pc = "pdf_classify" /\ block_idx = Len(all_blocks)
    /\ pc' = "pdf_done"
    /\ headings' = SortByPage(headings)
    /\ result' = [title |-> title, outline |-> headings']
    /\ UNCHANGED <<font_stats, clsVars, doc, page_num, all_blocks, title, seen_headings,
                   block_idx, dirVars, subVars, relVars, segVars>>

NextPdf ==
    \/ OpenDocument \/ OpenFails \/ ExtractPage \/ ExtractFails
    \/ ComputeStatistics \/ ClassifyBlock \/ SortAndReturn

SpecPdf == InitPdf /\ [][NextPdf]_vars

(***************************************************************************)
(* Claims about process_pdf, checked under SpecPdf.                        *)
(***************************************************************************)
EndToEndDoc == [opens |-> TRUE, pages |-> EndToEndPages, bad_page |-> 0]

PdfReturned == pc = "pdf_done"

\* C1, as claimed: the end-to-end document yields the title "Doc Title" and the
\* outline [H1 "Introduction" page 1, H2 "Background" page 1] and nothing else.
C1_AsClaimed ==
    (PdfReturned /\ doc = EndToEndDoc) =>
        result = [title |-> <<"D", "o", "c", " ", "T", "i", "t", "l", "e">>,
                  outline |-> <<[level |-> "H1", text |-> <<"I", "n", "t", "r", "o", "d", "u", "c", "t", "i", "o", "n">>, page |-> 1],
                                [level |-> "H2", text |-> <<"B", "a", "c", "k", "g", "r", "o", "u", "n", "d">>, page |-> 1]>>]

\* C1, what process_pdf returns instead: the title "Doc Title" and the outline
\* [H1 "Doc Title", H1 "Introduction", H2 "Background"], all on page 1: the
\* title fragment is itself classified as a heading by the font rule.
C1_EndToEnd ==
    (PdfReturned /\ doc = EndToEndDoc) =>
        result = [title |-> <<"D", "o", "c", " ", "T", "i", "t", "l", "e">>,
                  outline |-> <<[level |-> "H1", text |-> <<"D", "o", "c", " ", "T", "i", "t", "l", "e">>, page |-> 1],
                                [level |-> "H1", text |-> <<"I", "n", "t", "r", "o", "d", "u", "c", "t", "i", "o", "n">>, page |-> 1],
                                [level |-> "H2", text |-> <<"B", "a", "c", "k", "g", "r", "o", "u", "n", "d">>, page |-> 1]>>]

\* C1 witness: the end-to-end document was processed to its result
C1_Witness ==
    /\ PdfReturned /\ doc = EndToEndDoc
    /\ Len(all_blocks) = 4 /\ block_idx = 4
    /\ font_stats.body_size = 140
    /\ result.title = <<"D", "o", "c", " ", "T", "i", "t", "l", "e">>

\* the blocks of all_blocks that are classified as headings with a given cleaned text
HeadingBlocks(text) ==
    {k \in 1..Len(all_blocks) :
        /\ IsLikelyHeading(all_blocks[k], font_stats).heading
        /\ CleanHeading(all_blocks[k].text) = text}

\* where a heading text was first discovered, in document order
Discovered(text) == CHOOSE k \in HeadingBlocks(text) : \A j \in HeadingBlocks(text) : k <= j

\* C2: for every document the outline is in non-decreasing page order, no heading
\* text is empty, no two headings have the same text, every heading is the first
\* block of the document with its text (so it carries that block's page), and
\* headings keep the order in which they were discovered.
C2_OutlineOrdered ==
    (PdfReturned /\ result # ErrorResult) =>
        LET outline == result.outline
        IN  /\ \A i, j \in 1..Len(outline) : i < j => outline[i].page <= outline[j].page
            /\ \A i \in 1..Len(outline) : outline[i].text # <<>>
            /\ \A i, j \in 1..Len(outline) : i # j => outline[i].text # outline[j].text
            /\ \A i \in 1..Len(outline) :
                  /\ HeadingBlocks(outline[i].text) # {}
                  /\ outline[i].page = all_blocks[Discovered(outline[i].text)].page
            /\ \A i, j \in 1..Len(outline) :
                  i < j => Discovered(outline[i].text) < Discovered(outline[j].text)

\* C2 witness: an outline over two pages, from a document in which a repeated
\* heading text was dropped
C2_Witness ==
    /\ PdfReturned /\ result # ErrorResult
    /\ Len(result.outline) = 2
    /\ result.outline[1].page = 1 /\ result.outline[2].page = 2
    /\ \E k \in 1..Len(all_blocks) :
          /\ IsLikelyHeading(all_blocks[k], font_stats).heading
          /\ CleanHeading(all_blocks[k].text) = result.outline[1].text
          /\ k # Discovered(result.outline[1].text)

\* the document whose only line is the numbered case c
NumberedDoc(c) ==
    [opens |-> TRUE,
     pages |-> << <<  <<[text |-> CaseText(c), size |-> 100, flags |-> 0]>> >> >>,
     bad_page |-> 0]

\* C8, as claimed: for a fragment accepted through any of the five numbering
\* patterns, the heading text of the outline is the body that follows the
\* numbering token.
C8_AsClaimed ==
    PdfReturned =>
        \A c \in NumberedCases :
            doc = NumberedDoc(c) =>
                /\ Len(result.outline) = 1
                /\ result.outline[1].text = c.body

\* the part of C8 that holds: the three numeric patterns
C8_NumericStripped ==
    PdfReturned =>
        \A c \in NumberedCases :
            (doc = NumberedDoc(c) /\ c.kind = "numeric") =>
                /\ Len(result.outline) = 1
                /\ result.outline[1].text = c.body

\* what the code does for a letter or a Roman numeral: the text is kept whole
C8_LetterRomanKept ==
    PdfReturned =>
        \A c \in NumberedCases :
            (doc = NumberedDoc(c) /\ c.kind # "numeric") =>
                /\ Len(result.outline) = 1
                /\ result.outline[1].text = CaseText(c)

(***************************************************************************)
(* PDFOutlineExtractor.process_directory.  The listing is os.listdir's     *)
(* answer, in its order, each name with the file behind it; output_dir is  *)
(* the set of files written, [name, content], one per name.                *)
(***************************************************************************)
RECURSIVE ReplaceAll(_, _, _)
\* str.replace(old, new): every occurrence, left to right
ReplaceAll(s, old, new) ==
    IF Len(s) < Len(old) THEN s
    ELSE IF SubSeq(s, 1, Len(old)) = old
         THEN new \o ReplaceAll(SubSeq(s, Len(old) + 1, Len(s)), old, new)
         ELSE <<Head(s)>> \o ReplaceAll(Tail(s), old, new)

DotPdf == <<".", "p", "d", "f">>

DotJson == <<".", "j", "s", "o", "n">>

\* filename.lower().endswith('.pdf')
IsPdfName(filename) == EndsWith(Lower(filename), DotPdf)

\* filename.replace('.pdf', '.json'), the name of the file under output_dir
OutputName(filename) == ReplaceAll(filename, DotPdf, DotJson)

\* open(output_path, 'w') and json.dump: the file is created or overwritten
WriteFile(dir, name, content) ==
    {f \in dir : f.name # name} \cup {[name |-> name, content |-> content]}

FileNames == {<<"a", ".", "p", "d", "f">>,
     <<"a", ".", "p", "d", "f", ".", "p", "d", "f">>,
     <<"a", ".", "j", "s", "o", "n", ".", "p", "d", "f">>,
     <<"B", ".", "P", "D", "F">>,
     <<"n", "o", "t", "e", "s", ".", "t", "x", "t">>}

ExtractErrorDoc == [opens |-> TRUE, pages |-> EndToEndPages, bad_page |-> 1]

DirFiles == {EndToEndDoc, BrokenDoc, ExtractErrorDoc}

MaxFiles == 3

\* the listings of at most MaxFiles files, no name twice
Listings ==
    UNION {{l \in [1..k -> [name : FileNames, file : DirFiles]] :
                \A i, j \in 1..k : i # j => l[i].name # l[j].name} : k \in 0..MaxFiles}

InitDir ==
    /\ pc = "dir_loop"
    /\ listing \in Listings
    /\ file_idx = 0
    /\ output_dir = {}
    /\ result = <<>>
    /\ font_stats = NoStats
    /\ block = <<>>
    /\ IdlePdf /\ IdleSub /\ IdleRel /\ IdleSeg

\* lines 216-217: a name that does not end in .pdf
SkipFile ==
    /\ pc = "dir_loop" /\ file_idx < Len(listing)
    /\ ~IsPdfName(listing[file_idx + 1].name)
    /\ file_idx' = file_idx + 1
    /\ UNCHANGED <<pc, font_stats, result, clsVars, pdfVars, listing, output_dir,
                   subVars, relVars, segVars>>

\* lines 218-227: process_pdf and the result written
ProcessFile ==
    /\ pc = "dir_loop" /\ file_idx < Len(listing)
    /\ IsPdfName(listing[file_idx + 1].name)
    /\ result' = ProcessPdf(listing[file_idx + 1].file)
    /\ output_dir' = WriteFile(output_dir, OutputName(listing[file_idx + 1].name), result')
    /\ file_idx' = file_idx + 1
    /\ UNCHANGED <<pc, font_stats, clsVars, pdfVars, listing, subVars, relVars, segVars>>

\* the loop of line 216 is over
DirectoryDone ==
    /\ pc = "dir_loop" /\ file_idx = Len(listing)
    /\ pc' = "dir_done"
    /\ UNCHANGED <<font_stats, result, clsVars, pdfVars, dirVars, subVars, relVars, segVars>>

NextDir == SkipFile \/ ProcessFile \/ DirectoryDone

SpecDir == InitDir /\ [][NextDir]_vars

(***************************************************************************)
(* Claims about process_directory, checked under SpecDir.                  *)
(***************************************************************************)
PdfEntries == {i \in 1..Len(listing) : IsPdfName(listing[i].name)}

Failing(file) == ~file.opens \/ file.bad_page # 0

\* C5, as claimed: after the batch, every .pdf file has its result file, holding
\* the sentinel {title "Error Processing Document", outline []} when the document
\* failed to open or to extract and its normal result otherwise, wherever the
\* failing files stand in the listing; and the output directory holds as many
\* result files as there are .pdf input files.
C5_AsClaimed ==
    pc = "dir_done" =>
        /\ \A i \in PdfEntries :
              [name |-> OutputName(listing[i].name),
               content |-> IF Failing(listing[i].file) THEN ErrorResult
                           ELSE ProcessPdf(listing[i].file)] \in output_dir
        /\ Cardinality(output_dir) = Cardinality(PdfEntries)

\* the part of C5 that holds: every .pdf file was answered, none raised, and each
\* result file holds the result of one of the files written under its name
C5_EveryFileAnswered ==
    pc = "dir_done" =>
        /\ file_idx = Len(listing)
        /\ \A i \in PdfEntries :
              \E f \in output_dir : f.name = OutputName(listing[i].name)
        /\ \A f \in output_dir :
              \E i \in PdfEntries :
                  /\ f.name = OutputName(listing[i].name)
                  /\ f.content = IF Failing(listing[i].file) THEN ErrorResult
                                 ELSE ProcessPdf(listing[i].file)

(***************************************************************************)
(* DocumentIntelligence.extract_subsections and generate_summary.          *)
(* sentences is what sent_tokenize(content) returned: a sequence of texts. *)
(***************************************************************************)
RECURSIVE JoinSpace(_)
\* ' '.join(seq)
JoinSpace(ss) ==
    IF ss = <<>> THEN <<>>
    ELSE IF Len(ss) = 1 THEN ss[1]
         ELSE ss[1] \o <<" ">> \o JoinSpace(Tail(ss))

ParaSentences == 3

ParaChars == 200

MinWords == 10

SummaryWords == 30

SummarySentences == 2

\* line 114: the paragraph ends with the sentence just appended
ShouldClose(para) ==
    \/ Len(para) >= ParaSentences
    \/ EndsWith(para[Len(para)], <<":">>)
    \/ Len(JoinSpace(para)) > ParaChars

MeaningfulFromTenWords(para_text) == WordCount(para_text) >= MinWords

\* lines 117 and 127: len(para_text.split()) > 10
Meaningful(para_text) == WordCount(para_text) > MinWords

\* generate_summary(text), for the text of a paragraph; sent_tokenize is taken to
\* give back the sentences the paragraph was joined from
GenerateSummary(para) ==
    IF WordCount(JoinSpace(para)) <= SummaryWords THEN JoinSpace(para)
    ELSE IF Len(para) <= SummarySentences THEN JoinSpace(para)
         ELSE para[1]

\* lines 116-121 and 126-131: the paragraph appended to subsections when meaningful
WithParagraph(subs, para) ==
    IF Meaningful(JoinSpace(para))
    THEN Append(subs, [text |-> JoinSpace(para), summary |-> GenerateSummary(para)])
    ELSE subs

\* lines 114-122: current_para after the sentence was appended
CurrentParaAfter(para) == IF ShouldClose(para) THEN <<>> ELSE para

\* n words of w characters, the last one ending with the character end
SentenceOf(n, w, end) ==
    JoinSpace([i \in 1..n |-> IF i = n THEN Pad("w", w - 1) \o <<end>> ELSE Pad("w", w)])

\* five words; four words and a colon; ten words; thirty words in 209 characters;
\* one word of 100 characters; one word of 99 characters
SentenceKinds == {SentenceOf(5, 3, "."), SentenceOf(4, 3, ":"), SentenceOf(10, 3, "."),
                  SentenceOf(30, 6, "."), SentenceOf(1, 100, "."), SentenceOf(1, 99, ".")}

MaxSentences == 4

InitSubsections ==
    /\ pc = "sub_loop"
    /\ sentences \in UNION {[1..k -> SentenceKinds] : k \in 0..MaxSentences}
    /\ sent_idx = 0 /\ current_para = <<>> /\ subsections = <<>>
    /\ result = <<>>
    /\ font_stats = NoStats
    /\ block = <<>>
    /\ IdlePdf /\ IdleDir /\ IdleRel /\ IdleSeg

\* lines 111-114: a sentence appended, the paragraph stays open
AddSentence ==
    /\ pc = "sub_loop" /\ sent_idx < Len(sentences)
    /\ ~ShouldClose(Append(current_para, sentences[sent_idx + 1]))
    /\ current_para' = CurrentParaAfter(Append(current_para, sentences[sent_idx + 1]))
    /\ sent_idx' = sent_idx + 1
    /\ UNCHANGED <<pc, font_stats, result, clsVars, pdfVars, dirVars, sentences,
                   subsections, relVars, segVars>>

\* lines 111-122: a sentence appended, the paragraph closed
CloseParagraph ==
    /\ pc = "sub_loop" /\ sent_idx < Len(sentences)
    /\ ShouldClose(Append(current_para, sentences[sent_idx + 1]))
    /\ subsections' = WithParagraph(subsections, Append(current_para, sentences[sent_idx + 1]))
    /\ current_para' = CurrentParaAfter(Append(current_para, sentences[sent_idx + 1]))
    /\ sent_idx' = sent_idx + 1
    /\ UNCHANGED <<pc, font_stats, result, clsVars, pdfVars, dirVars, sentences, relVars, segVars>>

\* lines 125-133: the remaining paragraph, and the return
FlushAndReturn ==
    /\ pc = "sub_loop" /\ sent_idx = Len(sentences)
    /\ subsections' = IF current_para # <<>> THEN WithParagraph(subsections, current_para)
                      ELSE subsections
    /\ result' = subsections'
    /\ pc' = "sub_done"
    /\ UNCHANGED <<font_stats, clsVars, pdfVars, dirVars, sentences, sent_idx,
                   current_para, relVars, segVars>>

NextSubsections == AddSentence \/ CloseParagraph \/ FlushAndReturn

SpecSubsections == InitSubsections /\ [][NextSubsections]_vars

\* the paragraphs the claim describes, as [from, to] ranges of sentences: a
\* paragraph starting at a ends at the first sentence with which it holds 3
\* sentences, ends with a colon or exceeds 200 characters, or at the last sentence
ClaimCloses(a, b) ==
    \/ b - a + 1 >= 3
    \/ sentences[b][Len(sentences[b])] = ":"
    \/ Len(JoinSpace(SubSeq(sentences, a, b))) > 200

ClaimEnd(a) ==
    CHOOSE b \in a..Len(sentences) :
        /\ ClaimCloses(a, b) \/ b = Len(sentences)
        /\ \A c \in a..(b - 1) : ~ClaimCloses(a, c)

RECURSIVE ClaimParagraphs(_)
ClaimParagraphs(a) ==
    IF a > Len(sentences) THEN <<>>
    ELSE <<[from |-> a, to |-> ClaimEnd(a)]>> \o ClaimParagraphs(ClaimEnd(a) + 1)

ClaimText(p) == JoinSpace(SubSeq(sentences, p.from, p.to))

\* C9: sentences are grouped consecutively; a paragraph is closed as soon as it
\* holds 3 sentences, or its last sentence ends with a colon, or its joined text
\* exceeds 200 characters, and the open paragraph is flushed at the end; a closed
\* paragraph becomes a subsection exactly when it has more than 10 words, so every
\* subsection has more than 10 words and at most 3 sentences, and a dropped
\* paragraph's sentences are not carried into the next paragraph.
C9_Paragraphs ==
    /\ pc = "sub_done" =>
          LET kept == SelectSeq(ClaimParagraphs(1), LAMBDA p : WordCount(ClaimText(p)) > 10)
          IN  /\ Len(result) = Len(kept)
              /\ \A i \in 1..Len(kept) :
                    /\ result[i].text = ClaimText(kept[i])
                    /\ WordCount(result[i].text) > 10
                    /\ kept[i].to - kept[i].from + 1 <= 3
    /\ pc = "sub_loop" =>
          \* the open paragraph holds the sentences since the last closing, and only them
          /\ Len(current_para) < 3
          /\ current_para = SubSeq(sentences, sent_idx - Len(current_para) + 1, sent_idx)
          /\ (Len(current_para) < sent_idx =>
                 \E p \in 1..Len(ClaimParagraphs(1)) :
                     ClaimParagraphs(1)[p].to = sent_idx - Len(current_para))

\* C9 witness: five words, five words and one word were closed as a paragraph of
\* 11 words and kept; the ten words after them were flushed and dropped
C9_Witness ==
    /\ pc = "sub_done"
    /\ sentences = <<SentenceOf(5, 3, "."), SentenceOf(5, 3, "."), SentenceOf(1, 100, "."),
                     SentenceOf(10, 3, ".")>>
    /\ Len(result) = 1
    /\ WordCount(result[1].text) = 11

(***************************************************************************)
(* DocumentIntelligence.process_documents.  A document is [name, opens,    *)
(* sections]: the sections are what extract_document_structure returns     *)
(* for it, and each section and each subsection carries the relevance that *)
(* calculate_relevance gives its text (the embedding model is outside the  *)
(* repository), as an integer.                                             *)
(***************************************************************************)
TopSections == 15

TopSubsections == 20

PreviewChars == 200

Ellipsis == <<".", ".", ".">>

\* section["content"][:200] + "..." if len(section["content"]) > 200 else section["content"]
ContentPreview(content) ==
    IF Len(content) > PreviewChars THEN SubSeq(content, 1, PreviewChars) \o Ellipsis
    ELSE content

\* lines 179-195: the entries of all_sections for one document
SectionEntries(d) ==
    [j \in 1..Len(d.sections) |->
        [document |-> d.name, page |-> d.sections[j].page, title |-> d.sections[j].title,
         relevance |-> d.sections[j].relevance,
         content_preview |-> ContentPreview(d.sections[j].content)]]

\* lines 198-211: the entries of all_subsections for one document
SubsectionEntries(d) ==
    FlattenSeq([j \in 1..Len(d.sections) |->
        [k \in 1..Len(d.sections[j].subsections) |->
            [document |-> d.name, section_title |-> d.sections[j].title,
             page |-> d.sections[j].page, subsection_idx |-> k - 1,
             refined_text |-> d.sections[j].subsections[k].summary,
             relevance |-> d.sections[j].subsections[k].relevance]]])

RECURSIVE InsertByRelevance(_, _)
\* x put behind every element whose relevance is not smaller
InsertByRelevance(sorted, x) ==
    IF sorted = <<>> THEN <<x>>
    ELSE IF sorted[Len(sorted)].relevance >= x.relevance THEN Append(sorted, x)
         ELSE Append(InsertByRelevance(SubSeq(sorted, 1, Len(sorted) - 1), x),
                     sorted[Len(sorted)])

RECURSIVE SortAscendingThenReverse(_)
SortAscendingThenReverse(items) ==
    IF items = <<>> THEN <<>>
    ELSE LET rest == SortAscendingThenReverse(SubSeq(items, 1, Len(items) - 1))
             x == items[Len(items)]
             before == SelectSeq(rest, LAMBDA y : y.relevance > x.relevance)
             after == SelectSeq(rest, LAMBDA y : y.relevance <= x.relevance)
         IN  before \o <<x>> \o after

RECURSIVE SortByRelevance(_)
\* list.sort(key=lambda x: x["relevance"], reverse=True): descending and stable
SortByRelevance(items) ==
    IF items = <<>> THEN <<>>
    ELSE InsertByRelevance(SortByRelevance(SubSeq(items, 1, Len(items) - 1)),
                           items[Len(items)])

\* lines 218-220: importance_rank set, relevance deleted
RankedSection(s, idx) ==
    [document |-> s.document, page |-> s.page, title |-> s.title,
     content_preview |-> s.content_preview, importance_rank |-> idx + 1]

\* lines 222-224
RankedSubsection(s, idx) ==
    [document |-> s.document, section_title |-> s.section_title, page |-> s.page,
     subsection_idx |-> s.subsection_idx, refined_text |-> s.refined_text,
     importance_rank |-> idx + 1]

\* items[:n]
Top(items, n) == SubSeq(items, 1, IF Len(items) < n THEN Len(items) ELSE n)

(***************************************************************************)
(* The documents of the specification of process_documents.                *)
(***************************************************************************)
NumDocs == 4

SectionsPerDoc == 4

\* the j-th section reported for document d; the third section has a long content
RelSection(d, j) ==
    [title |-> <<"t", d, j>>, page |-> j,
     content |-> IF j = 3 THEN Pad("c", PreviewChars + d) ELSE Pad("c", d + j),
     relevance |-> (7 * d + 3 * j) % 5,
     subsections |-> [k \in 1..(1 + ((d + j) % 2)) |->
                         [summary |-> <<"s", d, j, k>>, relevance |-> (d + j + 2 * k) % 4]]]

RelDoc(d) ==
    [name |-> <<"doc", d>>, opens |-> TRUE,
     sections |-> [j \in 1..SectionsPerDoc |-> RelSection(d, j)]]

\* a document with no text at all
EmptyRelDoc == [name |-> <<"doc", 0>>, opens |-> TRUE, sections |-> <<>>]

\* a path fitz.open raises on
MissingRelDoc == [name |-> <<"missing">>, opens |-> FALSE, sections |-> <<>>]

RelDocs == {RelDoc(d) : d \in 1..NumDocs} \cup {EmptyRelDoc, MissingRelDoc}

MaxDocs == 4

\* config["documents"]: at most MaxDocs documents, none twice
Configs ==
    UNION {{c \in [1..k -> RelDocs] : \A i, j \in 1..k : i # j => c[i] # c[j]} :
              k \in 0..MaxDocs}

InitRelevance ==
    /\ pc = "rel_loop"
    /\ documents \in Configs
    /\ doc_idx = 0 /\ all_sections = <<>> /\ all_subsections = <<>>
    /\ result = <<>>
    /\ font_stats = NoStats
    /\ block = <<>>
    /\ IdlePdf /\ IdleDir /\ IdleSub /\ IdleSeg

\* lines 174-211: one document segmented and scored
ProcessDocument ==
    /\ pc = "rel_loop" /\ doc_idx < Len(documents)
    /\ documents[doc_idx + 1].opens
    /\ all_sections' = all_sections \o SectionEntries(documents[doc_idx + 1])
    /\ all_subsections' = all_subsections \o SubsectionEntries(documents[doc_idx + 1])
    /\ doc_idx' = doc_idx + 1
    /\ UNCHANGED <<pc, font_stats, result, clsVars, pdfVars, dirVars, subVars, documents, segVars>>

\* line 36 raises in extract_document_structure; nothing catches it in
\* process_documents (line 176), run or main
DocumentRaises ==
    /\ pc = "rel_loop" /\ doc_idx < Len(documents)
    /\ ~documents[doc_idx + 1].opens
    /\ pc' = "rel_raised"
    /\ UNCHANGED <<font_stats, result, clsVars, pdfVars, dirVars, subVars, relVars, segVars>>

\* lines 214-239: sort, rank, truncate, return
RankAndReturn ==
    /\ pc = "rel_loop" /\ doc_idx = Len(documents)
    /\ pc' = "rel_done"
    /\ all_sections' =
          LET sorted == SortByRelevance(all_sections)
          IN  [i \in 1..Len(sorted) |-> RankedSection(sorted[i], i - 1)]
    /\ all_subsections' =
          LET sorted == SortByRelevance(all_subsections)
          IN  [i \in 1..Len(sorted) |-> RankedSubsection(sorted[i], i - 1)]
    /\ result' = [metadata |-> [input_documents |-> [i \in 1..Len(documents) |-> documents[i].name]],
                  extracted_sections |-> Top(all_sections', TopSections),
                  subsection_analysis |-> Top(all_subsections', TopSubsections)]
    /\ UNCHANGED <<font_stats, clsVars, pdfVars, dirVars, subVars, documents, doc_idx, segVars>>

NextRelevance == ProcessDocument \/ DocumentRaises \/ RankAndReturn

SpecRelevance == InitRelevance /\ [][NextRelevance]_vars

(***************************************************************************)
(* Claims about process_documents, checked under SpecRelevance.            *)
(***************************************************************************)
\* the complete pools, in collection order: every section and every subsection of
\* every document of the configuration
SectionPool == FlattenSeq([i \in 1..Len(documents) |-> SectionEntries(documents[i])])

SubsectionPool == FlattenSeq([i \in 1..Len(documents) |-> SubsectionEntries(documents[i])])

SectionKey(x) == <<x.document, x.title>>

SubsectionKey(x) == <<x.document, x.section_title, x.subsection_idx>>

\* the emitted list out is the ranking of pool, cut at cap
Ranking(out, pool, cap, Key(_)) ==
    LET Pos(o) == CHOOSE p \in 1..Len(pool) : Key(pool[p]) = Key(o)
        emitted == {Pos(out[i]) : i \in 1..Len(out)}
    IN  /\ Len(out) = IF Len(pool) < cap THEN Len(pool) ELSE cap
        /\ \A i \in 1..Len(out) :
              /\ out[i].importance_rank = i
              /\ \E p \in 1..Len(pool) : Key(pool[p]) = Key(out[i])
        /\ \A i, j \in 1..Len(out) :
              i < j => \/ pool[Pos(out[i])].relevance > pool[Pos(out[j])].relevance
                       \/ /\ pool[Pos(out[i])].relevance = pool[Pos(out[j])].relevance
                          /\ Pos(out[i]) < Pos(out[j])
        /\ \A p \in (1..Len(pool)) \ emitted :
              \A q \in emitted : pool[p].relevance <= pool[q].relevance

\* C3: the section list and the subsection list are each ranked once over the
\* complete pool of all documents: the emitted list is in descending order of
\* relevance, ties in collection order, its importance_rank values are 1..min(N, cap)
\* in list order (cap 15 for sections, 20 for subsections), and no item left out
\* has a higher relevance than an emitted one.
C3_Ranking ==
    pc = "rel_done" =>
        /\ Ranking(result.extracted_sections, SectionPool, 15, SectionKey)
        /\ Ranking(result.subsection_analysis, SubsectionPool, 20, SubsectionKey)

\* C3 witness: both pools are larger than their caps and both lists were cut
C3_Witness ==
    /\ pc = "rel_done"
    /\ Len(SectionPool) > 15 /\ Len(result.extracted_sections) = 15
    /\ Len(SubsectionPool) > 20 /\ Len(result.subsection_analysis) = 20
    /\ \E i \in 1..14 :
          SectionPool[CHOOSE p \in 1..Len(SectionPool) :
              SectionKey(SectionPool[p]) = SectionKey(result.extracted_sections[i])].relevance
          = SectionPool[CHOOSE p \in 1..Len(SectionPool) :
              SectionKey(SectionPool[p]) = SectionKey(result.extracted_sections[i + 1])].relevance

\* C4, as claimed: a document that cannot be opened does not abort the run: the
\* run ends with a result, in which the sections of the other documents are ranked.
C4_AsClaimed ==
    pc \in {"rel_done", "rel_raised"} =>
        /\ result # <<>>
        /\ LET others == SelectSeq(documents, LAMBDA d : d.opens)
               pool == FlattenSeq([i \in 1..Len(others) |-> SectionEntries(others[i])])
           IN  Len(result.extracted_sections) =
                  IF Len(pool) < TopSections THEN Len(pool) ELSE TopSections

\* what the code does: the run ends with a result exactly when every document opens
C4_RaisesOnFirstBadDocument ==
    /\ pc = "rel_raised" =>
          /\ result = <<>> /\ doc_idx < Len(documents)
          /\ ~documents[doc_idx + 1].opens
    /\ pc = "rel_done" => \A i \in 1..Len(documents) : documents[i].opens

(***************************************************************************)
(* DocumentIntelligence.extract_document_structure                         *)
(* A page is the sequence of its blocks; a block is [type, lines], a line  *)
(* a sequence of spans [text, size, flags].  A section is                  *)
(* [title, page, content, subsections].                                    *)
(***************************************************************************)
HeaderMinSize == 120

HeaderMaxLen == 100

HeaderMaxWords == 15

\* line 68: ^\d+\.?\s+\w+
LooseNumbering == <<E("plus", "d"), E("opt", "."), E("plus", "s"), E("plus", "word")>>

\* line 69: the keywords of a section header
HeaderKeywords == {<<"c", "h", "a", "p", "t", "e", "r">>,
                   <<"s", "e", "c", "t", "i", "o", "n">>,
                   <<"i", "n", "t", "r", "o", "d", "u", "c", "t", "i", "o", "n">>,
                   <<"c", "o", "n", "c", "l", "u", "s", "i", "o", "n">>}

\* lines 54-55: the spans of a block, line after line
BlockSpans(b) == FlattenSeq(b.lines)

\* lines 56 and 61: the text of the spans, concatenated and stripped
BlockText(b) == Strip(Concat([i \in 1..Len(BlockSpans(b)) |-> BlockSpans(b)[i].text]))

\* lines 58-59: some span is bold
AnyBold(b) == \E i \in 1..Len(BlockSpans(b)) : (BlockSpans(b)[i].flags \div BoldBit) % 2 = 1

RECURSIVE SumSizes(_)
SumSizes(spans) == IF spans = <<>> THEN 0 ELSE Head(spans).size + SumSizes(Tail(spans))

\* line 64 and line 66: the mean of the span sizes is above 12 points (0 without spans)
MeanSizeAboveMin(b) ==
    /\ BlockSpans(b) # <<>>
    /\ SumSizes(BlockSpans(b)) > HeaderMinSize * Len(BlockSpans(b))

\* lines 65-70: is_header
IsHeader(b) ==
    \/ MeanSizeAboveMin(b) /\ Len(BlockText(b)) < HeaderMaxLen
    \/ AnyBold(b)
    \/ ReMatch(LooseNumbering, BlockText(b))
    \/ \E kw \in HeaderKeywords : Contains(Lower(BlockText(b)), kw)

\* line 72: the block opens a section
OpensSection(b) == IsHeader(b) /\ WordCount(BlockText(b)) < HeaderMaxWords

\* lines 45 and 62: a text block whose stripped text is not empty
TextBearing(b) == b.type = 0 /\ BlockText(b) # <<>>

RECURSIVE Decimal(_)
\* str(n) for n >= 0
Decimal(n) ==
    LET DigitChars == <<"0", "1", "2", "3", "4", "5", "6", "7", "8", "9">>
    IN  IF n < 10 THEN <<DigitChars[n + 1]>>
        ELSE Decimal(n \div 10) \o <<DigitChars[(n % 10) + 1]>>

\* lines 75-80: the section a header opens
HeaderSection(b, page) ==
    [is_none |-> FALSE, title |-> BlockText(b), page |-> page, content |-> <<>>,
     subsections |-> <<>>]

\* lines 86-91: the section opened for text that no header precedes
DefaultSection(b, page) ==
    [is_none |-> FALSE, title |-> <<"P", "a", "g", "e", " ">> \o Decimal(page), page |-> page,
     content |-> BlockText(b), subsections |-> <<>>]

\* line 83: current_section["content"] += " " + block_text
Appended(section, b) ==
    [section EXCEPT !.content = @ \o <<" ">> \o BlockText(b)]

\* the first position from i on that holds no whitespace (Len(t) + 1 if none)
RECURSIVE SkipSpace(_, _)
SkipSpace(t, i) == IF i <= Len(t) /\ t[i] \in Whitespace THEN SkipSpace(t, i + 1) ELSE i

RECURSIVE SentencesFrom(_, _, _)
\* the sentences of t from position start on, i being the position examined: a
\* sentence ends at a ".", "?" or "!" that whitespace follows, the next one starts
\* at the next character that is no whitespace, the last one ends where t does
SentencesFrom(t, start, i) ==
    IF start > Len(t) THEN <<>>
    ELSE IF i >= Len(t) THEN <<SubSeq(t, start, Len(t))>>
    ELSE IF t[i] \in {".", "?", "!"} /\ t[i + 1] \in Whitespace
         THEN <<SubSeq(t, start, i)>> \o SentencesFrom(t, SkipSpace(t, i + 1), SkipSpace(t, i + 1))
         ELSE SentencesFrom(t, start, i + 1)

\* line 106: sent_tokenize(content), for a content that ends with no whitespace and
\* whose words are no abbreviations; whitespace before the first sentence is kept
SentTokenize(content) == IF Strip(content) = <<>> THEN <<>> ELSE SentencesFrom(content, 1, 1)

RECURSIVE SubsectionsFrom(_, _, _, _)
\* lines 111-131: the loop over the sentences from the k-th on, then the remaining paragraph
SubsectionsFrom(sents, k, para, subs) ==
    IF k > Len(sents)
    THEN IF para # <<>> THEN WithParagraph(subs, para) ELSE subs
    ELSE IF ShouldClose(Append(para, sents[k]))
         THEN SubsectionsFrom(sents, k + 1, <<>>, WithParagraph(subs, Append(para, sents[k])))
         ELSE SubsectionsFrom(sents, k + 1, Append(para, sents[k]), subs)

\* extract_subsections(content)
ExtractSubsections(content) == SubsectionsFrom(SentTokenize(content), 1, <<>>, <<>>)

(***************************************************************************)
(* The documents extract_document_structure is run on.                     *)
(***************************************************************************)
\* n words in bold
BlkBoldWords(n) ==
    [type |-> 0, lines |-> <<<<[text |-> JoinSpace([i \in 1..n |-> <<"w">>]), size |-> 100, flags |-> 16]>>>>]

\* one word of n characters at 14 points
BlkLargeWord(n) ==
    [type |-> 0, lines |-> <<<<[text |-> Pad("x", n), size |-> 140, flags |-> 0]>>>>]

\* the blocks of which documents of any shape are made: a header by boldness; a
\* header by its loose numbering; body text that ends a sentence; body text at
\* exactly 12 points; an image block; fifteen words in bold
SegBlocks == {
    [type |-> 0, lines |-> <<<<[text |-> <<"O", "v", "e", "r", "v", "i", "e", "w">>, size |-> 100, flags |-> 16]>>>>],
    [type |-> 0, lines |-> <<<<[text |-> <<"2", " ", "M", "e", "t", "h", "o", "d", "s">>, size |-> 100, flags |-> 0]>>>>],
    [type |-> 0, lines |-> <<<<[text |-> <<"S", "o", "m", "e", " ", "b", "o", "d", "y", " ", "t", "e", "x", "t", ".">>, size |-> 100, flags |-> 0]>>>>],
    [type |-> 0, lines |-> <<<<[text |-> <<"m", "o", "r", "e", " ", "w", "o", "r", "d", "s">>, size |-> 120, flags |-> 0]>>>>],
    [type |-> 1, lines |-> <<>>],
    BlkBoldWords(HeaderMaxWords)}

\* the blocks tried in one place each: a header by a keyword; a header by size;
\* two lines of 10 and 15 points, 12.5 on average; two spans of 10 and 14 points,
\* 12 on average; a text block of whitespace; fourteen words in bold; 100 and 99
\* characters at 14 points
SegSpecialBlocks == {
    [type |-> 0, lines |-> <<<<[text |-> <<"t", "h", "e", " ", "c", "o", "n", "c", "l", "u", "s", "i", "o", "n">>, size |-> 100, flags |-> 0]>>>>],
    [type |-> 0, lines |-> <<<<[text |-> <<"R", "e", "s", "u", "l", "t", "s">>, size |-> 140, flags |-> 0]>>>>],
    [type |-> 0, lines |-> <<<<[text |-> <<"P", "a", "r", "t">>, size |-> 100, flags |-> 0]>>, <<[text |-> <<" ", "o", "n", "e">>, size |-> 150, flags |-> 0]>>>>],
    [type |-> 0, lines |-> <<<<[text |-> <<"P", "a", "r", "t">>, size |-> 100, flags |-> 0], [text |-> <<" ", "t", "w", "o">>, size |-> 140, flags |-> 0]>>>>],
    [type |-> 0, lines |-> <<<<[text |-> <<" ", " ">>, size |-> 100, flags |-> 0]>>>>],
    BlkBoldWords(HeaderMaxWords - 1),
    BlkLargeWord(HeaderMaxLen), BlkLargeWord(HeaderMaxLen - 1)}

MaxBlocks == 3

\* the documents: at most MaxBlocks blocks cut into two pages at any place; a
\* special block after a header and some text, then first on its page; a path
\* fitz.open raises on
SegDocs ==
    LET Cut == UNION {{<<SubSeq(bs, 1, cut), SubSeq(bs, cut + 1, Len(bs))>> : cut \in 0..Len(bs)} :
                         bs \in UNION {[1..k -> SegBlocks] : k \in 0..MaxBlocks}}
        BoldHeader == [type |-> 0, lines |-> <<<<[text |-> <<"O", "v", "e", "r", "v", "i", "e", "w">>, size |-> 100, flags |-> 16]>>>>]
        Body == [type |-> 0, lines |-> <<<<[text |-> <<"S", "o", "m", "e", " ", "b", "o", "d", "y", " ", "t", "e", "x", "t", ".">>, size |-> 100, flags |-> 0]>>>>]
        Plain == [type |-> 0, lines |-> <<<<[text |-> <<"m", "o", "r", "e", " ", "w", "o", "r", "d", "s">>, size |-> 120, flags |-> 0]>>>>]
        Special == {<<<<BoldHeader, Body, x, Plain>>, <<>>, <<x, Body, Plain>>>> :
                       x \in SegSpecialBlocks}
    IN  {[opens |-> TRUE, pages |-> p] : p \in Cut \cup Special}
            \cup {[opens |-> FALSE, pages |-> <<>>]}

InitSegment ==
    /\ pc = "seg_open"
    /\ doc \in SegDocs
    /\ page_num = 0 /\ all_blocks = <<>> /\ title = <<>>
    /\ headings = <<>> /\ seen_headings = {} /\ block_idx = 0
    /\ sections = <<>> /\ current_section = NoSection /\ seg_idx = 0
    /\ result = <<>>
    /\ font_stats = NoStats
    /\ block = <<>>
    /\ IdleDir /\ IdleSub /\ IdleRel

\* the block the inner loop is at
SegBlock == doc.pages[page_num + 1][seg_idx + 1]

SegInPage == pc = "seg_loop" /\ page_num < Len(doc.pages) /\ seg_idx < Len(doc.pages[page_num + 1])

\* lines 36-38: fitz.open returns
SegOpenDocument ==
    /\ pc = "seg_open" /\ doc.opens
    /\ pc' = "seg_loop"
    /\ sections' = <<>> /\ current_section' = NoSection
    /\ page_num' = 0 /\ seg_idx' = 0
    /\ UNCHANGED <<font_stats, result, clsVars, doc, all_blocks, title, headings,
                   seen_headings, block_idx, dirVars, subVars, relVars>>

\* line 36 raises: the exception leaves extract_document_structure
SegOpenRaises ==
    /\ pc = "seg_open" /\ ~doc.opens
    /\ pc' = "seg_raised"
    /\ UNCHANGED <<font_stats, result, clsVars, pdfVars, dirVars, subVars, relVars, segVars>>

\* lines 45 and 62: an image block, or a block without text
SegSkipBlock ==
    /\ SegInPage /\ ~TextBearing(SegBlock)
    /\ seg_idx' = seg_idx + 1
    /\ UNCHANGED <<pc, font_stats, result, clsVars, pdfVars, dirVars, subVars, relVars,
                   sections, current_section>>

\* lines 72-80: a header closes the open section and opens its own
SegOpenSection ==
    /\ SegInPage /\ TextBearing(SegBlock) /\ OpensSection(SegBlock)
    /\ sections' = IF current_section.is_none THEN sections
                   ELSE Append(sections, current_section)
    /\ current_section' = HeaderSection(SegBlock, page_num + 1)
    /\ seg_idx' = seg_idx + 1
    /\ UNCHANGED <<pc, font_stats, result, clsVars, pdfVars, dirVars, subVars, relVars>>

\* lines 82-83: text appended to the open section
SegAppendText ==
    /\ SegInPage /\ TextBearing(SegBlock) /\ ~OpensSection(SegBlock)
    /\ ~current_section.is_none
    /\ current_section' = Appended(current_section, SegBlock)
    /\ seg_idx' = seg_idx + 1
    /\ UNCHANGED <<pc, font_stats, result, clsVars, pdfVars, dirVars, subVars, relVars,
                   sections>>

\* lines 84-91: text with no section open
SegDefaultSection ==
    /\ SegInPage /\ TextBearing(SegBlock) /\ ~OpensSection(SegBlock)
    /\ current_section.is_none
    /\ current_section' = DefaultSection(SegBlock, page_num + 1)
    /\ seg_idx' = seg_idx + 1
    /\ UNCHANGED <<pc, font_stats, result, clsVars, pdfVars, dirVars, subVars, relVars,
                   sections>>

\* line 40: the blocks of the page are done, the next page begins
SegNextPage ==
    /\ pc = "seg_loop" /\ page_num < Len(doc.pages)
    /\ seg_idx = Len(doc.pages[page_num + 1])
    /\ page_num' = page_num + 1
    /\ seg_idx' = 0
    /\ UNCHANGED <<pc, font_stats, result, clsVars, doc, all_blocks, title, headings,
                   seen_headings, block_idx, dirVars, subVars, relVars, sections,
                   current_section>>

\* lines 93-102: the open section appended, the subsections extracted, the return
SegReturn ==
    /\ pc = "seg_loop" /\ page_num = Len(doc.pages)
    /\ pc' = "seg_done"
    /\ sections' =
          LET secs == IF current_section.is_none THEN sections
                      ELSE Append(sections, current_section)
          IN  [i \in 1..Len(secs) |->
                  [secs[i] EXCEPT !.subsections = ExtractSubsections(secs[i].content)]]
    /\ result' = sections'
    /\ UNCHANGED <<font_stats, clsVars, pdfVars, dirVars, subVars, relVars,
                   current_section, seg_idx>>

NextSegment ==
    \/ SegOpenDocument \/ SegOpenRaises \/ SegSkipBlock \/ SegOpenSection
    \/ SegAppendText \/ SegDefaultSection \/ SegNextPage \/ SegReturn

SpecSegment == InitSegment /\ [][NextSegment]_vars

(***************************************************************************)
(* Claims about extract_document_structure, checked under SpecSegment.     *)
(***************************************************************************)
\* the text-bearing fragments among the first n blocks of page p
FragmentsOfPage(p, n) ==
    FlattenSeq([i \in 1..n |->
        IF TextBearing(doc.pages[p][i])
        THEN <<[text |-> BlockText(doc.pages[p][i]), page |-> p,
                header |-> OpensSection(doc.pages[p][i])]>>
        ELSE <<>>])

\* the text-bearing fragments the loops have handled so far
FragmentsHandled ==
    FlattenSeq([p \in 1..page_num |-> FragmentsOfPage(p, Len(doc.pages[p]))])
        \o (IF page_num < Len(doc.pages) THEN FragmentsOfPage(page_num + 1, seg_idx) ELSE <<>>)

\* the fragments that open a section: every header, and the first fragment
Openers(fs) == {k \in 1..Len(fs) : fs[k].header \/ k = 1}

\* the fragments after k up to the next header
Followers(fs, k) ==
    {i \in (k + 1)..Len(fs) : \A h \in (k + 1)..i : ~fs[h].header}

\* the texts of a set of fragments, in order
RECURSIVE TextsOf(_, _)
TextsOf(fs, I) ==
    IF I = {} THEN <<>>
    ELSE LET m == CHOOSE i \in I : \A j \in I : i <= j
         IN  <<fs[m].text>> \o TextsOf(fs, I \ {m})

\* the section the claim describes for the opener k: a header gives its text as the
\* title, any other fragment the title "Page N" and its own text as the first of
\* the body; the body is the space-joined texts
ClaimedSection(fs, k) ==
    [title   |-> IF fs[k].header THEN fs[k].text
                 ELSE <<"P", "a", "g", "e", " ">> \o Decimal(fs[k].page),
     page    |-> fs[k].page,
     content |-> JoinSpace(TextsOf(fs, IF fs[k].header THEN Followers(fs, k)
                                       ELSE {k} \cup Followers(fs, k)))]

\* the same section with the body the code builds: under a header every text is
\* preceded by a space, the first one too
BuiltSection(fs, k) ==
    [ClaimedSection(fs, k) EXCEPT !.content =
        IF fs[k].header /\ Followers(fs, k) # {} THEN <<" ">> \o @ ELSE @]

\* the j-th opener, in order
OpenerAt(fs, j) ==
    CHOOSE k \in Openers(fs) : Cardinality({i \in Openers(fs) : i <= k}) = j

\* the sections the claim describes, in opening order
ClaimedSections(fs) ==
    [j \in 1..Cardinality(Openers(fs)) |-> ClaimedSection(fs, OpenerAt(fs, j))]

\* the sections the code builds, in opening order
BuiltSections(fs) ==
    [j \in 1..Cardinality(Openers(fs)) |-> BuiltSection(fs, OpenerAt(fs, j))]

\* what a section says of its title, page and body
Core(sec) == [title |-> sec.title, page |-> sec.page, content |-> sec.content]

\* the closed sections followed by the open one
SectionsSoFar ==
    [i \in 1..Len(sections) |-> Core(sections[i])]
        \o (IF pc = "seg_loop" /\ ~current_section.is_none THEN <<Core(current_section)>>
            ELSE <<>>)

SegRunning == pc \in {"seg_loop", "seg_done"}

\* C11, as claimed: at every point of the run, the closed sections followed by the
\* open one are the sections of the fragments handled so far, one per header plus
\* one titled "Page N" if the first fragment is no header, in opening order with
\* non-decreasing pages, each body being exactly the space-joined texts of the
\* non-header fragments up to the next header; at the end every section is closed.
C11_AsClaimed ==
    SegRunning =>
        LET fs == FragmentsHandled
            ss == SectionsSoFar
        IN  /\ ss = ClaimedSections(fs)
            /\ \A i, j \in 1..Len(ss) : i <= j => ss[i].page <= ss[j].page
            /\ pc = "seg_done" => Len(result) = Len(ss)

\* C11, what extract_document_structure does: the same lifecycle, but the body of
\* a section opened by a header starts with a space
C11_LifecycleWithLeadingSpace ==
    SegRunning =>
        LET fs == FragmentsHandled
            ss == SectionsSoFar
        IN  /\ ss = BuiltSections(fs)
            /\ \A i, j \in 1..Len(ss) : i <= j => ss[i].page <= ss[j].page
            /\ Len(ss) = Cardinality({k \in 1..Len(fs) : fs[k].header})
                            + (IF fs # <<>> /\ ~fs[1].header THEN 1 ELSE 0)
            /\ pc = "seg_done" => Len(result) = Len(ss)

\* C11 witness: a document returned with a "Page 1" section for the text of page
\* 1, then a section opened by a header on page 2 that received one text
C11_Witness ==
    /\ pc = "seg_done" /\ Len(result) = 2
    /\ result[1].title = <<"P", "a", "g", "e", " ", "1">>
    /\ result[2].page = 2 /\ result[2].content # <<>>
    /\ Len(FragmentsHandled) = 3
    /\ FragmentsHandled[2].header
    /\ ~FragmentsHandled[1].header /\ ~FragmentsHandled[3].header

(***************************************************************************)
(* Either tool, on any of its inputs.                                      *)
(***************************************************************************)
Init ==
    \/ InitClassify \/ InitPdf \/ InitDir \/ InitSubsections \/ InitRelevance
    \/ InitSegment

Next ==
    \/ NextClassify \/ NextPdf \/ NextDir \/ NextSubsections \/ NextRelevance
    \/ NextSegment

Spec == Init /\ [][Next]_vars

=============================================================================
